---- MODULE Spec2Model ----
(***************************************************************************)
(* The authenticated Prisma Cloud API client of src/prismacloud_api:       *)
(* PrismaCloudAPIMixin (cspm.py) on the shared state that                  *)
(* PrismaCloudAPI.__init__ (pc_lib_api.py) constructs.  Several threads    *)
(* call the public methods execute, login, extend_login and                *)
(* is_token_expired on one client.  Every program location at which a      *)
(* thread can block or be pre-empted with an observable effect is a value  *)
(* of pc, named after the method and the source line of cspm.py.           *)
(*                                                                         *)
(* self.lock is a threading.Lock (pc_lib_api.py:41): it is not reentrant,  *)
(* a thread that acquires it while holding it waits for ever.  execute     *)
(* holds it over lines 86-88 and calls, inside, login (which acquires it   *)
(* at line 42) or is_token_expired (which acquires it at line 158, as does *)
(* the override of pc_lib_api.py:81-84).  The page loop of lines 90-136 is *)
(* therefore never entered; it has no action here.                         *)
(***************************************************************************)
EXTENDS Integers, Sequences, FiniteSets, TLC

\* ------------------------------------------------------------------ bounds
MaxTok == 2              \* distinct token values the server hands out
MaxTicks == 1            \* token lifetimes the wall clock may advance
MaxErrors == 1           \* cap of the logger.error call counter

\* ------------------------------------------------------- program constants
None == 0                                \* Python None (falsy) for token, token_expiry, lock owner
retry_waits == <<1, 2, 4, 8, 16, 32>>    \* pc_lib_api.py:39
token_limit == 590                       \* self.token_limit, the fixed token lifetime in seconds
expiry_duration_seconds == 590           \* pc_lib_api.py:86, update_token's default

Threads == {1, 2}                        \* the threads sharing the client
Tokens == 1..MaxTok

\* Non-success HTTP answers: status code and response text.
ErrorResponses ==
  { [kind |-> "http", status |-> 401, token |-> None, text |-> "invalid credentials"],
    [kind |-> "http", status |-> 503, token |-> None, text |-> "service unavailable"] }

\* requests.request raised requests.exceptions.RequestException.
ExceptionResponse == [kind |-> "exc", status |-> 0, token |-> None, text |-> "connection refused"]

\* A 200 answer of /login or /auth_token/extend: {"token": tk}.
OkResponses == { [kind |-> "ok", status |-> 200, token |-> tk, text |-> ""] : tk \in Tokens }

NoResponse == [kind |-> "none", status |-> 0, token |-> None, text |-> ""]

Responses == OkResponses \cup ErrorResponses \cup {ExceptionResponse}

\* How a call ended: "returned" with a value, or "raised" with the exception.
NoOutcome ==
  [kind |-> "none", exc |-> "", status |-> 0, text |-> "", value |-> "", token |-> None]

VARIABLES
  token,          \* self.token
  token_expiry,   \* self.token_expiry (None or an instant in seconds)
  lock,           \* self.lock: None when free, else the thread holding it
  now,            \* the wall clock, time.time()
  counter,        \* self.logger.error.counter
  pc,             \* pc[t]: where thread t stands
  op,             \* op[t]: the public method thread t called
  args,           \* args[t]: execute's paginated and force flags
  req,            \* req[t]: the request _perform_request_with_retries is performing
  hdr,            \* hdr[t]: the x-redlock-auth header of that request
  attempt,        \* attempt[t]: 1..Len(retry_waits) inside the for loop, Len+1 for the final attempt
  tries,          \* tries[t]: requests.request calls made for the current request
  slept,          \* slept[t]: the delays slept for the current request, in order
  resp,           \* resp[t]: api_response
  out,            \* out[t]: how thread t's last call ended
  loaded          \* loaded[t]: the value of self.counter that `self.counter += 1` has read

vars == <<token, token_expiry, lock, now, counter, pc, op, args, req, hdr,
          attempt, tries, slept, resp, out, loaded>>

shared == <<token, token_expiry, lock, now, counter>>

TypeOK ==
  /\ token \in {None} \cup Tokens
  /\ token_expiry \in Nat
  /\ lock \in {None} \cup Threads
  /\ now \in Nat
  /\ counter \in 0..MaxErrors
  /\ pc \in [Threads -> {"idle", "done", "execute_86", "execute_90", "is_token_expired_158",
                         "retry_145", "retry_151", "retry_154", "CallCounter_20",
                         "login_41", "login_42", "login_43",
                         "extend_login_68", "extend_login_69", "extend_login_70",
                         "update_token_88", "get_token_94"}]
  /\ op \in [Threads -> {"none", "execute", "login", "extend_login", "is_token_expired",
                         "update_token", "get_token"}]
  /\ args \in [Threads -> [paginated : BOOLEAN, force : BOOLEAN]]
  /\ req \in [Threads -> {"none", "login", "extend"}]
  /\ hdr \in [Threads -> {None} \cup Tokens]
  /\ attempt \in [Threads -> 0..(Len(retry_waits) + 1)]
  /\ tries \in [Threads -> 0..(Len(retry_waits) + 1)]
  /\ slept \in [Threads -> Seq(Nat)]
  /\ resp \in [Threads -> Responses \cup {NoResponse}]
  /\ loaded \in [Threads -> 0..MaxErrors]
  /\ out \in [Threads -> [kind : {"none", "returned", "raised"},
                          exc : {"", "SystemExit", "RequestException"},
                          status : Nat, text : STRING, value : STRING,
                          token : {None} \cup Tokens]]

NoArgs == [paginated |-> FALSE, force |-> FALSE]

Init ==
  /\ token = None                 \* pc_lib_api.py:36
  /\ token_expiry = None          \* pc_lib_api.py:37
  /\ lock = None                  \* pc_lib_api.py:41, threading.Lock() starts unlocked
  /\ now = 0
  /\ counter = 0                  \* pc_lib_api.py:17
  /\ pc = [t \in Threads |-> "idle"]
  /\ op = [t \in Threads |-> "none"]
  /\ args = [t \in Threads |-> NoArgs]
  /\ req = [t \in Threads |-> "none"]
  /\ hdr = [t \in Threads |-> None]
  /\ attempt = [t \in Threads |-> 0]
  /\ tries = [t \in Threads |-> 0]
  /\ slept = [t \in Threads |-> <<>>]
  /\ resp = [t \in Threads |-> NoResponse]
  /\ out = [t \in Threads |-> NoOutcome]
  /\ loaded = [t \in Threads |-> 0]

\* ------------------------------------------------------------- pure helpers

\* is_token_expired's expression: time.time() >= self.token_expiry if self.token_expiry else True
Expired(expiry, time) == IF expiry # None THEN time >= expiry ELSE TRUE

\* error_and_exit: raise SystemExit('Status Code: <code> <message>').
error_and_exit(code, message) ==
  [kind |-> "raised", exc |-> "SystemExit", status |-> code, text |-> message, value |-> "",
   token |-> None]

\* An exception of requests.request that leaves _perform_request_with_retries.
RequestException(message) ==
  [kind |-> "raised", exc |-> "RequestException", status |-> 0, text |-> message, value |-> "",
   token |-> None]

Returned(v) ==
  [kind |-> "returned", exc |-> "", status |-> 0, text |-> "", value |-> v, token |-> None]

\* get_token's return value: the token read from the store (None when there is none).
ReturnedToken(tk) ==
  [kind |-> "returned", exc |-> "", status |-> 0, text |-> "", value |-> "token", token |-> tk]

\* The delay slept after the unsuccessful attempt number a of the for loop.
wait_time(a) == retry_waits[a]

\* The for loop stops one delay early.
InLoop_short(a) == a < Len(retry_waits)

\* Whether attempt number a is made by the for loop (line 144) or is the final one (line 154).
InLoop(a) == a <= Len(retry_waits)

\* An exception that leaves execute's with block leaves the lock held.
LockAfterException_held(t) == lock

\* The with block of execute (line 86) is left by an exception: the lock it holds is released.
LockAfterException(t) == IF op[t] = "execute" /\ lock = t THEN None ELSE lock

\* ------------------------------------------------------ _perform_request_with_retries

\* The wrapper is entered for request kind k with auth header h (lines 138-142) and
\* calls requests.request (line 144, or line 154 when retry_waits is empty): the
\* first attempt is in flight.
EnterRetries(t, k, h) ==
  /\ req' = [req EXCEPT ![t] = k]
  /\ hdr' = [hdr EXCEPT ![t] = h]
  /\ attempt' = [attempt EXCEPT ![t] = 1]
  /\ tries' = [tries EXCEPT ![t] = 1]
  /\ slept' = [slept EXCEPT ![t] = <<>>]
  /\ resp' = [resp EXCEPT ![t] = NoResponse]
  /\ pc' = [pc EXCEPT ![t] = IF InLoop(1) THEN "retry_145" ELSE "retry_154"]

\* Where the wrapper's caller goes on with api_response (lines 41 and 68).
AfterRetries(k) == IF k = "login" THEN "login_41" ELSE "extend_login_68"

\* Every attempt of the for loop is followed by the sleep, a successful one too.
AfterAttempt_sleep(r, k) == "retry_151"

\* A RequestException of an attempt of the for loop leaves the wrapper.
AfterAttempt_abort(r, k) ==
  IF r.kind = "ok" THEN AfterRetries(k) ELSE IF r.kind = "exc" THEN "done" ELSE "retry_151"

\* Lines 146-151: where an attempt of the for loop that ended with r leads.  A
\* successful response is returned to the caller (line 147); a non-success
\* response falls through to the sleep; a caught RequestException calls
\* logger.error (line 149), that is CallCounter.__call__, and then falls through
\* to the sleep.
AfterAttempt(r, k) ==
  IF r.kind = "ok" THEN AfterRetries(k) ELSE IF r.kind = "exc" THEN "CallCounter_20" ELSE "retry_151"

\* Lines 145-150: an attempt of the for loop ends.  A successful response is
\* returned at once (line 147); an unsuccessful one falls through to the sleep;
\* a RequestException is caught and logger.error is called (line 149), whose
\* CallCounter reads self.counter first.
retry_loop_response(t) ==
  /\ pc[t] = "retry_145"
  /\ \E r \in Responses :
       /\ r.kind = "exc" => counter < MaxErrors
       /\ resp' = [resp EXCEPT ![t] = IF r.kind = "ok" THEN r ELSE @]
       /\ loaded' = [loaded EXCEPT ![t] = IF r.kind = "exc" THEN counter ELSE @]
       /\ pc' = [pc EXCEPT ![t] = AfterAttempt(r, req[t])]
  /\ UNCHANGED <<shared, op, args, req, hdr, attempt, tries, slept, out>>

\* pc_lib_api.py:20-21, CallCounter.__call__: self.counter += 1 reads the
\* attribute, adds one and writes it back, with no lock: the read is the last
\* thing the step before did, the write is this step.  Then the wrapped
\* logger.error writes the log entry and the wrapper goes on to the sleep.
CallCounter_20(t) ==
  /\ pc[t] = "CallCounter_20"
  /\ counter' = loaded[t] + 1
  /\ loaded' = [loaded EXCEPT ![t] = 0]
  /\ pc' = [pc EXCEPT ![t] = "retry_151"]
  /\ UNCHANGED <<token, token_expiry, lock, now, op, args, req, hdr, attempt, tries, slept, resp, out>>

\* Line 151: time.sleep(wait_time) ends; the next iteration (line 144) or, after
\* the last one, line 154 calls requests.request: the next attempt is in flight.
retry_sleep(t) ==
  /\ pc[t] = "retry_151"
  /\ slept' = [slept EXCEPT ![t] = Append(@, wait_time(attempt[t]))]
  /\ attempt' = [attempt EXCEPT ![t] = @ + 1]
  /\ tries' = [tries EXCEPT ![t] = @ + 1]
  /\ pc' = [pc EXCEPT ![t] = IF InLoop(attempt[t] + 1) THEN "retry_145" ELSE "retry_154"]
  /\ UNCHANGED <<shared, op, args, req, hdr, resp, out, loaded>>

\* The final attempt raises for a non-success response as well.
retry_final_response_raises(t) ==
  /\ pc[t] = "retry_154"
  /\ \E r \in Responses :
       IF r.kind # "ok"
       THEN /\ out' = [out EXCEPT ![t] = error_and_exit(r.status, r.text)]
            /\ lock' = LockAfterException(t)
            /\ pc' = [pc EXCEPT ![t] = "done"]
            /\ UNCHANGED resp
       ELSE /\ resp' = [resp EXCEPT ![t] = r]
            /\ pc' = [pc EXCEPT ![t] = AfterRetries(req[t])]
            /\ UNCHANGED <<out, lock>>
  /\ UNCHANGED <<token, token_expiry, now, counter, op, args, req, hdr, attempt, tries, slept, loaded>>

\* Line 154: the final attempt ends.  Its response is returned whatever its status;
\* a RequestException is not caught: it leaves the wrapper, its caller and, under
\* execute, the with block of line 86.
retry_final_response(t) ==
  /\ pc[t] = "retry_154"
  /\ \E r \in Responses :
       IF r.kind = "exc"
       THEN /\ out' = [out EXCEPT ![t] = RequestException(r.text)]
            /\ lock' = LockAfterException(t)
            /\ pc' = [pc EXCEPT ![t] = "done"]
            /\ UNCHANGED resp
       ELSE /\ resp' = [resp EXCEPT ![t] = r]
            /\ pc' = [pc EXCEPT ![t] = AfterRetries(req[t])]
            /\ UNCHANGED <<out, lock>>
  /\ UNCHANGED <<token, token_expiry, now, counter, op, args, req, hdr, attempt, tries, slept, loaded>>

\* ----------------------------------------------------------- login, extend_login

\* A call of thread t ends normally with value v.
Return(t, v) ==
  /\ out' = [out EXCEPT ![t] = Returned(v)]
  /\ pc' = [pc EXCEPT ![t] = "done"]

\* A call of thread t ends with exception e, which leaves every frame of the call.
Raise(t, e) ==
  /\ out' = [out EXCEPT ![t] = e]
  /\ lock' = LockAfterException(t)
  /\ pc' = [pc EXCEPT ![t] = "done"]

\* The else branch (error_and_exit) is missing: every response leads to the with block.
CheckResponse_noelse(t, at, acquire) ==
  /\ pc[t] = at
  /\ pc' = [pc EXCEPT ![t] = acquire]
  /\ attempt' = [attempt EXCEPT ![t] = 0]
  /\ tries' = [tries EXCEPT ![t] = 0]
  /\ slept' = [slept EXCEPT ![t] = <<>>]
  /\ UNCHANGED <<token, token_expiry, lock, now, counter, op, args, req, hdr, resp, out, loaded>>

\* Lines 41/46-48 and 68/73-75: api_response.ok leads to the with block, anything
\* else to error_and_exit(status_code, 'API (url) responded with an error' + text).
\* The wrapper has returned: its locals are gone.
CheckResponse(t, at, acquire) ==
  /\ pc[t] = at
  /\ IF resp[t].kind = "ok"
     THEN /\ pc' = [pc EXCEPT ![t] = acquire]
          /\ UNCHANGED <<out, lock>>
     ELSE Raise(t, error_and_exit(resp[t].status, resp[t].text))
  /\ attempt' = [attempt EXCEPT ![t] = 0]
  /\ tries' = [tries EXCEPT ![t] = 0]
  /\ slept' = [slept EXCEPT ![t] = <<>>]
  /\ UNCHANGED <<token, token_expiry, now, counter, op, args, req, hdr, resp, loaded>>

\* Lines 42 and 69: with self.lock.  threading.Lock is not reentrant: the thread
\* waits until the lock is free, also when it is itself the holder.
AcquireLock(t, at, inside) ==
  /\ pc[t] = at
  /\ lock = None
  /\ lock' = t
  /\ pc' = [pc EXCEPT ![t] = inside]
  /\ UNCHANGED <<token, token_expiry, now, counter, op, args, req, hdr, attempt, tries, slept, resp, out, loaded>>

\* The token the response's JSON carries: api_response_data.get('token').
ResponseToken(r) == r.token

\* The expiry is the instant of the write itself: no lifetime is added.
NewExpiry_past(time) == time

\* The expiry written with a token at instant time: time.time() + self.token_limit.
NewExpiry(time) == time + token_limit

\* Lines 43-45 and 70-72, then the end of the with block and of the method: the
\* token and its expiry are written and the lock is released.  Called by execute
\* (line 88), login would return into execute's with block, which ends there;
\* login_42 is never enabled under execute, so that branch is never taken.
StoreToken(t, at) ==
  /\ pc[t] = at
  /\ token' = ResponseToken(resp[t])
  /\ token_expiry' = NewExpiry(now)
  /\ lock' = None
  /\ IF op[t] = "execute"
     THEN /\ pc' = [pc EXCEPT ![t] = "execute_90"]
          /\ UNCHANGED out
     ELSE Return(t, "None")
  /\ UNCHANGED <<now, counter, op, args, req, hdr, attempt, tries, slept, resp, loaded>>

login_41(t) == CheckResponse(t, "login_41", "login_42")
login_42(t) == AcquireLock(t, "login_42", "login_43")
login_43(t) == StoreToken(t, "login_43")

extend_login_68(t) == CheckResponse(t, "extend_login_68", "extend_login_69")
extend_login_69(t) == AcquireLock(t, "extend_login_69", "extend_login_70")
extend_login_70(t) == StoreToken(t, "extend_login_70")

\* ------------------------------------------------------------ is_token_expired

\* Lines 158-159: with self.lock: return <expired>.  Nothing blocks inside the
\* with block, so acquiring, reading and releasing are one step.  Called by
\* execute at line 87, the result would decide between login (line 88) and the end
\* of the with block of line 86; the calling thread holds the lock there, so the
\* step is never enabled under execute.
is_token_expired_158(t) ==
  /\ pc[t] = "is_token_expired_158"
  /\ lock = None
  /\ IF op[t] = "execute"
     THEN IF Expired(token_expiry, now)
          THEN /\ EnterRetries(t, "login", None)
               /\ UNCHANGED <<out, lock>>
          ELSE /\ pc' = [pc EXCEPT ![t] = "execute_90"]
               /\ UNCHANGED <<out, lock, req, hdr, attempt, tries, slept, resp>>
     ELSE /\ Return(t, IF Expired(token_expiry, now) THEN "True" ELSE "False")
          /\ UNCHANGED <<lock, req, hdr, attempt, tries, slept, resp>>
  /\ UNCHANGED <<token, token_expiry, now, counter, op, args, loaded>>

\* ------------------------------------------------- update_token, get_token

\* The expiry is the instant of the update itself: no duration is added.
UpdatedExpiry_now(time) == time

\* pc_lib_api.py:90: datetime.now() + timedelta(seconds=expiry_duration_seconds).
UpdatedExpiry(time) == time + expiry_duration_seconds

\* pc_lib_api.py:88-90: with self.lock: self.token = new_token; self.token_expiry
\* = <now + duration>.  Nothing blocks inside the with block, so acquiring,
\* writing both and releasing are one step.  new_token is the caller's argument;
\* nothing looks at it before this step, where it is drawn.
update_token_88(t) ==
  /\ pc[t] = "update_token_88"
  /\ lock = None
  /\ \E new_token \in Tokens : token' = new_token
  /\ token_expiry' = UpdatedExpiry(now)
  /\ Return(t, "None")
  /\ UNCHANGED <<lock, now, counter, op, args, req, hdr, attempt, tries, slept, resp, loaded>>

\* pc_lib_api.py:94-95: with self.lock: return self.token.
get_token_94(t) ==
  /\ pc[t] = "get_token_94"
  /\ lock = None
  /\ out' = [out EXCEPT ![t] = ReturnedToken(token)]
  /\ pc' = [pc EXCEPT ![t] = "done"]
  /\ UNCHANGED <<shared, op, args, req, hdr, attempt, tries, slept, resp, loaded>>

\* ------------------------------------------------------------------- execute

\* Lines 86-88: with self.lock: if not self.token or self.is_token_expired():
\* self.login().  The lock is acquired; `not self.token` is read under it.  With no
\* token, login is called (lines 26-39 lead to the wrapper) with the lock held;
\* with a token, is_token_expired is called with the lock held.
execute_86(t) ==
  /\ pc[t] = "execute_86"
  /\ lock = None
  /\ lock' = t
  /\ IF token = None
     THEN EnterRetries(t, "login", None)
     ELSE /\ pc' = [pc EXCEPT ![t] = "is_token_expired_158"]
          /\ UNCHANGED <<req, hdr, attempt, tries, slept, resp>>
  /\ UNCHANGED <<token, token_expiry, now, counter, op, args, out, loaded>>

\* ------------------------------------------------------------ calls by the threads

Call_execute(t) ==
  /\ pc[t] = "idle"
  /\ \E p \in BOOLEAN, f \in BOOLEAN :
       args' = [args EXCEPT ![t] = [paginated |-> p, force |-> f]]
  /\ op' = [op EXCEPT ![t] = "execute"]
  /\ pc' = [pc EXCEPT ![t] = "execute_86"]
  /\ UNCHANGED <<shared, req, hdr, attempt, tries, slept, resp, out, loaded>>

\* login(): lines 26-39 build the request and enter the wrapper.
Call_login(t) ==
  /\ pc[t] = "idle"
  /\ op' = [op EXCEPT ![t] = "login"]
  /\ args' = [args EXCEPT ![t] = NoArgs]
  /\ EnterRetries(t, "login", None)
  /\ UNCHANGED <<shared, out, loaded>>

\* extend_login(): line 62 reads self.token for the x-redlock-auth header, without
\* the lock, then lines 65-66 enter the wrapper.
Call_extend_login(t) ==
  /\ pc[t] = "idle"
  /\ op' = [op EXCEPT ![t] = "extend_login"]
  /\ args' = [args EXCEPT ![t] = NoArgs]
  /\ EnterRetries(t, "extend", token)
  /\ UNCHANGED <<shared, out, loaded>>

Call_is_token_expired(t) ==
  /\ pc[t] = "idle"
  /\ op' = [op EXCEPT ![t] = "is_token_expired"]
  /\ args' = [args EXCEPT ![t] = NoArgs]
  /\ pc' = [pc EXCEPT ![t] = "is_token_expired_158"]
  /\ UNCHANGED <<shared, req, hdr, attempt, tries, slept, resp, out, loaded>>

Call_update_token(t) ==
  /\ pc[t] = "idle"
  /\ op' = [op EXCEPT ![t] = "update_token"]
  /\ args' = [args EXCEPT ![t] = NoArgs]
  /\ pc' = [pc EXCEPT ![t] = "update_token_88"]
  /\ UNCHANGED <<shared, req, hdr, attempt, tries, slept, resp, out, loaded>>

Call_get_token(t) ==
  /\ pc[t] = "idle"
  /\ op' = [op EXCEPT ![t] = "get_token"]
  /\ args' = [args EXCEPT ![t] = NoArgs]
  /\ pc' = [pc EXCEPT ![t] = "get_token_94"]
  /\ UNCHANGED <<shared, req, hdr, attempt, tries, slept, resp, out, loaded>>

\* The caller has the outcome of its call; the thread is free for the next call.
Finish(t) ==
  /\ pc[t] = "done"
  /\ pc' = [pc EXCEPT ![t] = "idle"]
  /\ op' = [op EXCEPT ![t] = "none"]
  /\ args' = [args EXCEPT ![t] = NoArgs]
  /\ req' = [req EXCEPT ![t] = "none"]
  /\ hdr' = [hdr EXCEPT ![t] = None]
  /\ attempt' = [attempt EXCEPT ![t] = 0]
  /\ tries' = [tries EXCEPT ![t] = 0]
  /\ slept' = [slept EXCEPT ![t] = <<>>]
  /\ resp' = [resp EXCEPT ![t] = NoResponse]
  /\ out' = [out EXCEPT ![t] = NoOutcome]
  /\ UNCHANGED <<shared, loaded>>

\* The wall clock advances, by one token lifetime at a time: a token written at
\* one instant is unexpired until the next and expired from it on.
Tick ==
  /\ now + token_limit <= MaxTicks * token_limit
  /\ now' = now + token_limit
  /\ UNCHANGED <<token, token_expiry, lock, counter, pc, op, args, req, hdr,
                 attempt, tries, slept, resp, out, loaded>>

\* A step of thread t inside a call.
Step(t) ==
  \/ execute_86(t)
  \/ is_token_expired_158(t)
  \/ retry_loop_response(t)
  \/ CallCounter_20(t)
  \/ retry_sleep(t)
  \/ retry_final_response(t)
  \/ login_41(t)
  \/ login_42(t)
  \/ login_43(t)
  \/ extend_login_68(t)
  \/ extend_login_69(t)
  \/ extend_login_70(t)
  \/ update_token_88(t)
  \/ get_token_94(t)

Call(t) ==
  \/ Call_execute(t)
  \/ Call_login(t)
  \/ Call_extend_login(t)
  \/ Call_is_token_expired(t)
  \/ Call_update_token(t)
  \/ Call_get_token(t)
  \/ Finish(t)

Next == Tick \/ \E t \in Threads : Call(t) \/ Step(t)

Spec == Init /\ [][Next]_vars

\* Threads are scheduled and every request in flight is answered (by a response
\* or by an exception): a thread that can take a step inside its call eventually
\* takes one.  Callers need not call and the clock need not advance.
FairSpec == Spec /\ \A t \in Threads : WF_vars(Step(t))

\* ------------------------------------------------------------ state predicates

\* Thread t is inside a call of execute.
InExecute(t) == op[t] = "execute" /\ pc[t] \notin {"idle", "done"}

\* A request of thread t is in flight: requests.request was called and has not returned.
InFlight(t) == pc[t] \in {"retry_145", "retry_154"}

\* Thread t waits for self.lock at a with statement.
WaitsForLock(t) ==
  pc[t] \in {"execute_86", "login_42", "extend_login_69", "is_token_expired_158",
            "update_token_88", "get_token_94"}

\* Thread t waits for the lock it holds itself: no step of any thread frees it.
SelfDeadlocked(t) == WaitsForLock(t) /\ lock = t

\* Line 90 and everything after it (the page loop and its data requests, lines
\* 90-136) is never reached: no execute call leaves the with block of line 86
\* other than by an exception.
PageLoopUnreachable == \A t \in Threads : pc[t] # "execute_90"

\* ---------------------------------------------------------------- the claims

\* C4: no execute call deadlocks on the token lock: a thread never tries to
\* acquire the non-reentrant self.lock while it already holds it.
C4_NoSelfAcquire == \A t \in Threads : ~SelfDeadlocked(t)

\* The first n delays of the schedule.
FirstWaits(n) == SubSeq(retry_waits, 1, n)

\* The wrapper of thread t has made its last attempt without a successful response:
\* it returned a non-success response to login/extend_login, or the final attempt's
\* exception left it.
AllAttemptsFailed(t) ==
  \/ pc[t] \in {"login_41", "extend_login_68"} /\ resp[t].kind = "http"
  \/ pc[t] = "done" /\ out[t].exc = "RequestException"

\* C5: when every attempt is unsuccessful, _perform_request_with_retries makes
\* exactly Len(retry_waits) + 1 attempts; it sleeps the i-th delay of the schedule
\* after the i-th unsuccessful attempt, in order, and does not sleep after the
\* final attempt.
C5_AttemptsAndSleeps ==
  \A t \in Threads :
    /\ pc[t] \in {"retry_145", "retry_151", "retry_154"} =>
         /\ tries[t] = attempt[t]
         /\ slept[t] = FirstWaits(attempt[t] - 1)
    /\ pc[t] = "retry_154" => attempt[t] = Len(retry_waits) + 1
    /\ AllAttemptsFailed(t) =>
         /\ tries[t] = Len(retry_waits) + 1
         /\ slept[t] = retry_waits

\* C5's case: all seven attempts of a request were answered with a non-success status.
C5_Witness ==
  \E t \in Threads :
    /\ pc[t] = "login_41"
    /\ resp[t].kind = "http"
    /\ tries[t] = 7
    /\ slept[t] = <<1, 2, 4, 8, 16, 32>>

\* C10: when login or extend still has a non-success response after all retry
\* attempts, the call in progress ends with a fatal error (SystemExit) that carries
\* the response's status code and text, and goes no further: it neither stores a
\* token nor reaches a data request.
C10_RenewalFailureIsFatal ==
  \A t \in Threads :
    resp[t].kind = "http" =>
      /\ pc[t] \in {"login_41", "extend_login_68", "done"}
      /\ pc[t] = "done" =>
           /\ out[t].kind = "raised"
           /\ out[t].exc = "SystemExit"
           /\ out[t].status = resp[t].status
           /\ out[t].text = resp[t].text
           /\ lock # t

\* C10's case: an execute call whose login was answered 503 on every attempt has
\* ended with the fatal error.
C10_Witness ==
  \E t \in Threads :
    /\ op[t] = "execute"
    /\ pc[t] = "done"
    /\ resp[t].kind = "http"
    /\ out[t].status = 503

\* Thread t's execute call stands in the token check of lines 86-88, holding the lock.
InTokenCheck(t) == op[t] = "execute" /\ lock = t

\* Thread t's execute call has left the token check: it stands at line 90, before
\* its first data request.
PastTokenCheck(t) == op[t] = "execute" /\ pc[t] = "execute_90"

\* C1: for well-formed pages, execute(paginated=true) returns the concatenation of
\* every page's items.  In particular a paginated call whose login was answered
\* 200, and which is refused nothing afterwards, returns a result.
C1_PaginatedExecuteReturns ==
  \A t \in Threads :
    (op[t] = "execute" /\ args[t].paginated /\ pc[t] = "login_42")
      ~> (pc[t] = "done" /\ out[t].kind = "returned")

\* C2: an execute call that finds the token absent or expired issues exactly one
\* renewal call, which completes before the call's first data request: the call
\* leaves the token check with the renewal done (or ends with the renewal's error).
C2_RenewalCompletesBeforeData ==
  \A t \in Threads :
    (InTokenCheck(t) /\ (token = None \/ Expired(token_expiry, now)))
      ~> (PastTokenCheck(t) \/ pc[t] = "done")

\* Renewal requests issued by execute calls never overlap: the with block of line
\* 86 is held across login's request.
OneRenewalInFlightUnderExecute ==
  Cardinality({t \in Threads : op[t] = "execute" /\ InFlight(t)}) <= 1

\* C3: when several threads call execute while the token is absent, the first
\* caller renews and the others observe the fresh token without calling the
\* network: once the first caller's login was answered 200, a second caller waiting
\* at line 86 gets past the token check with that token.
C3_OthersObserveFreshToken ==
  \A t \in Threads : \A u \in Threads \ {t} :
    (op[t] = "execute" /\ pc[t] = "login_42" /\ op[u] = "execute" /\ pc[u] = "execute_86")
      ~> (PastTokenCheck(u) /\ token # None)

\* C6: execute terminates: when a data request fails for good the call stops and
\* returns.  In particular a call that finds a token in the store, so that its
\* first request is the data request, comes to an end.
C6_ExecuteTerminates ==
  \A t \in Threads :
    (op[t] = "execute" /\ pc[t] = "is_token_expired_158") ~> (pc[t] = "done")

\* C7: with force=false, an execute call whose data request is answered 503 on
\* every attempt surfaces a fatal error with status 503: a call with force=false
\* that has entered the token check ends, with a fatal error or a result.
C7_UnforcedCallEnds ==
  \A t \in Threads :
    (InTokenCheck(t) /\ ~args[t].force)
      ~> (pc[t] = "done" /\ out[t].kind \in {"raised", "returned"})

\* C8: an execute call made with a token that exists but has expired renews it
\* with an extend call that carries the current token: an extend request of the
\* call comes to be in flight.
C8_ExpiredTokenIsExtended ==
  \A t \in Threads :
    (op[t] = "execute" /\ pc[t] = "is_token_expired_158"
       /\ token # None /\ Expired(token_expiry, now))
      ~> (InFlight(t) /\ req[t] = "extend" /\ hdr[t] = token)

\* C9: in a paginated execute every page request carries the token that is current
\* when it is issued, also after an extend between two pages: a paginated call
\* that finds an unexpired token in the store gets to issue its page requests.
C9_PaginatedCallIssuesPageRequests ==
  \A t \in Threads :
    (op[t] = "execute" /\ args[t].paginated /\ pc[t] = "is_token_expired_158"
       /\ ~Expired(token_expiry, now))
      ~> (PastTokenCheck(t) \/ pc[t] = "done")

\* Thread t is inside the critical section of login (lines 43-45) or extend_login
\* (lines 70-72) that writes the token and its expiry.
InWritingSection(t) == pc[t] \in {"login_43", "extend_login_70"}

\* C11: every read of the shared token happens with the token lock held; no
\* thread reads the token (here: for the x-redlock-auth header of its extend
\* request, line 62) while another thread is inside the token-writing critical
\* section.
C11_NoReadDuringWrite ==
  [][\A t \in Threads :
       (pc[t] = "idle" /\ op'[t] = "extend_login")
         => \A u \in Threads \ {t} : ~InWritingSection(u)]_vars

\* Thread t's execute call has ended by returning a value to its caller.
HasReturned(t) == op[t] = "execute" /\ pc[t] = "done" /\ out[t].kind = "returned"

\* Thread t's execute call has ended, by a return or by an exception.
HasEnded(t) == op[t] = "execute" /\ pc[t] = "done"

\* C12: when a successful data response fails JSON decoding, execute returns the
\* results accumulated so far if force is set and ends with a fatal error
\* otherwise.  In particular a non-paginated call whose login was answered 200
\* ends, and with force set it ends by returning.
C12_DecodeFailureEndsCall ==
  \A t \in Threads :
    (op[t] = "execute" /\ ~args[t].paginated /\ pc[t] = "login_42")
      ~> (HasEnded(t) /\ (args[t].force => HasReturned(t)))

\* C13: a decoded page without an `items` key makes a paginated execute end with
\* an error, with or without force.  In particular a paginated call made with
\* force, whose login was answered 200, gets its first page or ends.
C13_ForcedPaginatedCallGetsPage ==
  \A t \in Threads :
    (op[t] = "execute" /\ args[t].paginated /\ args[t].force /\ pc[t] = "login_42")
      ~> (PastTokenCheck(t) \/ HasEnded(t))

\* C14: after a page with a non-empty nextPageToken T the next data request has
\* body {pageToken: T}.  In particular a paginated call on a client without a
\* token, once it holds the lock, gets to its first data request or ends with the
\* error of its login.
C14_PaginatedCallReachesDataRequest ==
  \A t \in Threads :
    (InTokenCheck(t) /\ args[t].paginated /\ token = None)
      ~> (PastTokenCheck(t) \/ HasEnded(t))

\* C15: a paginated execute stops at the first successful page whose
\* nextPageToken is absent, null or empty, and returns.  In particular a paginated
\* call without force, whose login was answered 200, comes to an end.
C15_PaginatedCallStops ==
  \A t \in Threads :
    (op[t] = "execute" /\ args[t].paginated /\ ~args[t].force /\ pc[t] = "login_42")
      ~> HasEnded(t)

\* C19: on a successful response execute returns None for an empty body, the raw
\* bytes for application/x-gzip, the decoded text for text/csv and the decoded
\* JSON otherwise.  In particular a non-paginated call that finds an unexpired
\* token in the store, so that its only request is the data request, returns.
C19_PlainCallReturns ==
  \A t \in Threads :
    (op[t] = "execute" /\ ~args[t].paginated /\ pc[t] = "is_token_expired_158"
       /\ ~Expired(token_expiry, now))
      ~> (PastTokenCheck(t) \/ HasReturned(t))

\* The wrapper of thread t is running: an attempt is in flight or it sleeps.
InRetries(t) == pc[t] \in {"retry_145", "retry_151", "retry_154", "CallCounter_20"}

\* The wrapper of thread t has returned a response to login or extend_login,
\* which has not looked at it yet.
WrapperReturned(t) == pc[t] \in {"login_41", "extend_login_68"}

\* C16: _perform_request_with_retries returns the first successful response as
\* soon as it is received: once an attempt was answered successfully the wrapper
\* neither sleeps nor attempts again, and when it returns the successful response
\* of attempt k it has made k attempts and slept exactly the first k-1 delays.
C16_FirstSuccessReturned ==
  \A t \in Threads :
    resp[t].kind = "ok" =>
      /\ ~InRetries(t)
      /\ WrapperReturned(t) =>
           /\ tries[t] = attempt[t]
           /\ slept[t] = FirstWaits(tries[t] - 1)

\* C16's case: the third attempt was the first successful one.
C16_Witness ==
  \E t \in Threads :
    /\ WrapperReturned(t)
    /\ resp[t].kind = "ok"
    /\ tries[t] = 3
    /\ slept[t] = <<1, 2>>

\* An attempt of thread t inside the for loop ends in this step with a
\* RequestException: the step leaves line 145 and logger.error is called.
AttemptRaises(t) == pc[t] = "retry_145" /\ pc'[t] \notin {"retry_145", "retry_151"} /\ resp'[t].kind # "ok"

\* The call of logger.error for that exception: the step is inside CallCounter,
\* with the counter read and the wrapper's state as it was.
ExceptionLogged(t) ==
  /\ pc'[t] = "CallCounter_20"
  /\ loaded'[t] = counter
  /\ attempt'[t] = attempt[t]
  /\ tries'[t] = tries[t]
  /\ slept'[t] = slept[t]
  /\ out'[t] = out[t]
  /\ lock' = lock

\* CallCounter of thread t finishes in this step: it writes the value it read
\* plus one, once.
CounterWritten(t) == pc[t] = "CallCounter_20" /\ pc'[t] # pc[t]

\* An attempt of thread t inside the for loop ends in this step with a
\* non-success response: the step leaves line 145 for the sleep, nothing is logged.
AttemptRefused(t) == pc[t] = "retry_145" /\ pc'[t] = "retry_151"

\* What follows any failed attempt of the for loop: the wrapper goes to the sleep
\* of line 151 with its attempt number, its attempts made and its sleeps so far
\* unchanged, and the call has no outcome yet.
FailedAttemptFollowUp(t) ==
  /\ pc'[t] = "retry_151"
  /\ attempt'[t] = attempt[t]
  /\ tries'[t] = tries[t]
  /\ slept'[t] = slept[t]
  /\ out'[t] = out[t]
  /\ lock' = lock

\* The sleep of line 151 ends in this step: the delay of the failed attempt was
\* slept and the next attempt is in flight.
SleepThenNextAttempt(t) ==
  /\ slept'[t] = Append(slept[t], retry_waits[attempt[t]])
  /\ attempt'[t] = attempt[t] + 1
  /\ tries'[t] = tries[t] + 1
  /\ InFlight(t)'

\* C17: a RequestException raised by an attempt of the for loop does not abort
\* _perform_request_with_retries: it is logged (CallCounter adds one to the value
\* of the error counter it read, once), it uses up exactly one attempt, and it is
\* followed by the same sleep and next attempt as a non-success response.
C17_ExceptionIsRetried ==
  [][\A t \in Threads :
       /\ AttemptRaises(t) => ExceptionLogged(t)
       /\ CounterWritten(t) => (counter' = loaded[t] + 1 /\ FailedAttemptFollowUp(t))
       /\ AttemptRefused(t) => (counter' = counter /\ FailedAttemptFollowUp(t))
       /\ (pc[t] = "retry_151" /\ pc'[t] # pc[t]) => SleepThenNextAttempt(t)]_vars

\* C17's case: an exception was logged in the for loop and the wrapper of the
\* thread went on: it slept the first delay and its second attempt is in flight.
C17_Witness ==
  \E t \in Threads :
    /\ counter = 1
    /\ pc[t] = "retry_145"
    /\ tries[t] = 2
    /\ slept[t] = <<1>>
    /\ \A u \in Threads \ {t} : op[u] = "none" /\ pc[u] = "idle"
    /\ token = None

\* The final attempt of thread t (line 154) ends in this step.
FinalAttemptEnds(t) == pc[t] = "retry_154" /\ pc'[t] # pc[t]

\* The wrapper of thread t returns the final attempt's response, successful or
\* not, to its caller; nothing is raised.
FinalResponseReturned(t) ==
  /\ pc'[t] = AfterRetries(req[t])
  /\ resp'[t].kind \in {"ok", "http"}
  /\ out'[t] = out[t]

\* The transport exception of the final attempt leaves the wrapper.
FinalExceptionRaised(t) ==
  /\ pc'[t] = "done"
  /\ out'[t].kind = "raised"
  /\ out'[t].exc = "RequestException"

\* C18: after the backoff list is used up, _perform_request_with_retries makes
\* exactly one final attempt (attempt number Len(retry_waits) + 1, after every
\* delay was slept) and returns whatever response it yields; it raises nothing
\* for a non-success response, and raises only the transport exception of that
\* final attempt.
C18_FinalAttempt ==
  [][\A t \in Threads :
       FinalAttemptEnds(t) =>
         /\ tries[t] = Len(retry_waits) + 1
         /\ slept[t] = retry_waits
         /\ tries'[t] = tries[t]
         /\ slept'[t] = slept[t]
         /\ FinalResponseReturned(t) \/ FinalExceptionRaised(t)]_vars

\* C18's case: the final attempt of an extend request was answered with a
\* non-success status and the wrapper has returned that response.
C18_Witness ==
  \E t \in Threads :
    /\ pc[t] = "extend_login_68"
    /\ resp[t].kind = "http"
    /\ resp[t].status = 401
    /\ tries[t] = Len(retry_waits) + 1
    /\ out[t] = NoOutcome

\* The token store is absent: no token value and no expiry (pc_lib_api.py:36-37).
StoreAbsent == token = None /\ token_expiry = None

\* The token store holds a token value together with an expiry.
StoreSet == token # None /\ token_expiry # None

\* This step writes the token store.
StoreWritten == token' # token \/ token_expiry' # token_expiry

\* The store is written in this step from inside a critical section: by a thread
\* in the with block of login or extend_login, or by update_token, whose whole
\* with block is the step.
WrittenInCriticalSection ==
  \E t \in Threads :
    /\ pc'[t] # pc[t]
    /\ \/ InWritingSection(t) /\ lock = t
       \/ pc[t] = "update_token_88" /\ lock = None

NoToken == token = None
Valid == token # None /\ ~Expired(token_expiry, now)
SessionExpired == token # None /\ Expired(token_expiry, now)

\* C21: the session follows NoToken -> Valid (login success), Valid -> Expired
\* (time passes the expiry), Expired -> Valid (extend success).  In particular the
\* first transition: an execute call on a session in NoToken whose login was
\* answered 200 brings the session to Valid or, when the clock has passed the new
\* expiry, to Expired: a token is in the store.
C21_LoginSuccessLeavesNoToken ==
  \A t \in Threads :
    (op[t] = "execute" /\ pc[t] = "login_42" /\ NoToken) ~> (Valid \/ SessionExpired)

\* What the token check of execute does keep of the state machine: a login request
\* of an execute call is in flight only while the session is in NoToken, and an
\* execute call issues no extend request.
RenewalsUnderExecute ==
  \A t \in Threads :
    (op[t] = "execute" /\ InRetries(t)) => (req[t] = "login" /\ NoToken)

\* C22: an extend performed in the middle of a paginated execute leaves the
\* accumulated items and the pending continuation token unchanged, and the next
\* data request is for the next page.  In particular a paginated call that finds
\* the session expired gets, with the token renewed, to its data requests, or
\* ends with the renewal's error.
C22_PaginatedCallRenewsAndGoesOn ==
  \A t \in Threads :
    (op[t] = "execute" /\ args[t].paginated /\ pc[t] = "is_token_expired_158"
       /\ SessionExpired)
      ~> (PastTokenCheck(t) \/ HasEnded(t))

\* C23: when two threads run paginated execute calls concurrently on one client,
\* each call's result holds exactly the items of its own pages, in its own order.
\* In particular, while the first caller's login was answered 200, the second
\* caller, waiting at line 86, gets to its own pages or ends.
C23_SecondPaginatedCallGetsItsPages ==
  \A t \in Threads : \A u \in Threads \ {t} :
    (op[t] = "execute" /\ args[t].paginated /\ pc[t] = "login_42"
       /\ op[u] = "execute" /\ args[u].paginated /\ pc[u] = "execute_86")
      ~> (PastTokenCheck(u) \/ HasEnded(u))

\* C26: in a paginated execute a successful page with an empty body makes execute
\* return None, and a gzip or CSV page only that page's body, whatever was
\* accumulated.  In particular a paginated call that finds the session valid, so
\* that all its requests are page requests, returns.
C26_PaginatedCallReturns ==
  \A t \in Threads :
    (op[t] = "execute" /\ args[t].paginated /\ pc[t] = "is_token_expired_158" /\ Valid)
      ~> HasReturned(t)

\* C24: the running error counter equals the number of error-log events reported
\* so far by all threads: every error-log event increments it by exactly one, and
\* no increment is lost when two threads report errors concurrently.
C24_EveryLogEventCounts ==
  [][\A t \in Threads : CounterWritten(t) => counter' = counter + 1]_vars

\* login or extend_login of thread t ends in failure in this step: the wrapper had
\* returned a non-success response and error_and_exit raises.
RenewalFails(t) == WrapperReturned(t) /\ resp[t].kind = "http" /\ pc'[t] # pc[t]

\* Thread t takes this step inside a login or extend_login that has not got a
\* successful response (yet): it is in the wrapper or looks at a non-success response.
RenewalUnsuccessfulSoFar(t) ==
  /\ pc'[t] # pc[t]
  /\ InRetries(t) \/ (WrapperReturned(t) /\ resp[t].kind = "http")

\* C25: when login or extend_login ends in failure (a non-success response after
\* all retries, SystemExit raised), no step of the call has written the token or
\* its expiry, and the token lock is not left held: a lock the failing thread held
\* (execute's, line 86) is free, a lock it did not hold is untouched.
C25_FailedRenewalLeavesStore ==
  /\ [][\A t \in Threads :
          /\ RenewalUnsuccessfulSoFar(t) => (token' = token /\ token_expiry' = token_expiry)
          /\ RenewalFails(t) =>
               /\ pc'[t] = "done"
               /\ out'[t].exc = "SystemExit"
               /\ lock' = IF lock = t THEN None ELSE lock]_vars
  /\ [](\A t \in Threads : (pc[t] = "done" /\ out[t].kind = "raised") => lock # t)

\* C25's case: the login made by an execute call under its lock has failed with
\* a 401 on every attempt: the store is still absent and the lock is free.
C25_Witness ==
  \E t \in Threads :
    /\ op[t] = "execute"
    /\ pc[t] = "done"
    /\ out[t].exc = "SystemExit"
    /\ out[t].status = 401
    /\ lock = None
    /\ StoreAbsent

\* Thread t's call of op o takes its step under the lock in this step.
LockedStep(t, o) == op[t] = o /\ pc[t] # "done" /\ pc'[t] = "done"

\* No thread is inside a critical section of the token lock.
NoneInCriticalSection == lock = None /\ \A u \in Threads : ~InWritingSection(u)

\* C27: update_token writes the token value and its expiry (now + 590 s) in one
\* critical section.  Under any interleaving with the other calls, get_token
\* returns the value of the store while no write is in progress, that is a value
\* a completed write left there; right after an update_token the token is not
\* expired, and is_token_expired answers False as long as the clock has not
\* reached the expiry.
C27_UpdateTokenAtomic ==
  [][\A t \in Threads :
       /\ LockedStep(t, "update_token") =>
            /\ NoneInCriticalSection /\ NoneInCriticalSection'
            /\ token' \in Tokens
            /\ token_expiry' = now + 590
            /\ ~Expired(token_expiry', now')
       /\ LockedStep(t, "get_token") =>
            /\ NoneInCriticalSection
            /\ out'[t].kind = "returned"
            /\ out'[t].token = token
            /\ token' = token /\ token_expiry' = token_expiry
       /\ LockedStep(t, "is_token_expired") =>
            /\ NoneInCriticalSection
            /\ out'[t].value = (IF token_expiry # None /\ now < token_expiry
                                 THEN "False" ELSE "True")
            /\ token' = token /\ token_expiry' = token_expiry]_vars

\* C27's case: one thread has completed an update_token and another has got that
\* token from get_token, which is not expired.
C27_Witness ==
  \E t \in Threads : \E u \in Threads \ {t} :
    /\ op[t] = "update_token" /\ pc[t] = "done"
    /\ op[u] = "get_token" /\ pc[u] = "done"
    /\ out[u].token = token
    /\ token # None
    /\ ~Expired(token_expiry, now)

====
